---- MODULE Spec2Model ----
(***************************************************************************)
(* A model of orwynn's module declarations (orwynn/base/module/module.py) *)
(* and of the dependency-injection pipeline that Boot runs over them:     *)
(* module collection, provider dependency collection, circularity check,  *)
(* provider instantiation and container lookup.                           *)
(*                                                                         *)
(* Python lists are objects: the model keeps them in a heap, and a module *)
(* holds references into it, so that aliasing and copying are visible.    *)
(***************************************************************************)
EXTENDS Integers, Sequences, FiniteSets, TLC

VARIABLES
    heap,       \* the list objects: heap[ref] is the content of list ref
    mods,       \* the constructed Module objects, by name
    held,       \* the list objects user code holds a reference to, each
                \* with the field and the module it was passed for or read from
    returned,   \* the list objects an accessor returned
    last_error, \* the error the last Module(...) call raised, "" if none
    last_call,  \* the route and Providers arguments of the last Module(...)
                \* call
    sigs,       \* the constructor signature of every provider class
    pc,         \* where the boot is
    root,       \* the root module given to the boot
    stack,      \* collect_modules: the traversal's frames
    collected,  \* collect_modules: the modules collected so far
    circular,   \* collect_modules: an import cycle was met
    err,        \* the error that aborted the boot, "" if none
    depmap,     \* the providers' dependencies map
    container,  \* the DI container: provider type -> instance
    ctor_calls, \* how many times each provider's constructor was called
    init_order, \* the providers in the order they were constructed
    found,      \* what the last container lookup returned
    appended,   \* how many entries user code has appended to its lists
    boot_args,  \* the ErrorHandlers and cors arguments of Boot(...)
    di,         \* what the DI accessors gave Boot: the controllers, and
                \* which lookups raised MissingDIObjectError
    router,     \* the Router: the bindings registered, and the calls of
                \* the registration of a controller for a module
    app,        \* the App: middleware, CORS and error handlers added
    life        \* the worker's life: boots, discards, the first boot's
                \* container

module_vars == <<heap, mods, held, returned, last_error, last_call,
                 appended>>
boot_vars == <<pc, root, stack, collected, circular, err, depmap, container,
               ctor_calls, init_order, found>>
web_vars == <<boot_args, di, router, app, life>>
vars == <<heap, mods, held, returned, last_error, last_call, sigs, pc, root,
          stack, collected, circular, err, depmap, container, ctor_calls,
          init_order, found, appended, boot_args, di, router, app, life>>

----------------------------------------------------------------------------
(* Bounds of the model.                                                    *)

\* lists user code obtains from accessors in the module-layer runs
MaxCopies == 1
\* entries user code appends to lists it holds in the module-layer runs
MaxAppends == 2
\* modules of the import-graph runs
MaxModules == 4
\* import entries user code writes in the import-graph runs
MaxEdges == 4
\* constructor parameters declared in the signature runs
MaxParams == 3
\* error handlers passed to Boot in the boot runs
MaxHandlers == 2
\* boots of the same root module in the boot runs
MaxBoots == 2
\* discards of the worker in the boot runs
MaxDiscards == 2

----------------------------------------------------------------------------
(* The classes and objects of the runs.                                    *)

\* the absent argument
None == 0

NoModule == "no module"

\* the docstring's example classes, the framework's application service and
\* a class that is no provider
KingService == "KingService"
KingConfig == "KingConfig"
KingController == "KingController"
BlessingMiddleware == "BlessingMiddleware"
AppService == "AppService"
PlainClass == "PlainClass"

\* the standard test structure's classes
TextService == "TextService"
TextConfig == "TextConfig"
BootConfig == "BootConfig"
NumberService == "NumberService"
FloatService == "FloatService"
TextController == "TextController"
NumberController == "NumberController"
FloatController == "FloatController"

\* the classes of the signature runs
AService == "AService"
BService == "BService"
CService == "CService"
DConfig == "DConfig"
\* the classes of the import-graph runs: one service per module
M1Service == "M1Service"
M2Service == "M2Service"
M3Service == "M3Service"
M4Service == "M4Service"
M5Service == "M5Service"

\* the classes of the boot runs: the log configuration Boot adds to the
\* root module, a controller of two methods and a websocket controller
LogConfig == "LogConfig"
UsersController == "UsersController"
ChatController == "ChatController"

\* annotations that are no provider types
IntValue == "int"

FrameworkServices == {AppService}
ConfigClasses == {KingConfig, TextConfig, BootConfig, DConfig, LogConfig}
ServiceClasses == {KingService, TextService, NumberService, FloatService,
                   AService, BService, CService,
                   M1Service, M2Service, M3Service, M4Service,
                   M5Service}
ProviderClasses == FrameworkServices \cup ConfigClasses \cup ServiceClasses
ControllerClasses == {KingController, TextController, NumberController,
                      FloatController, UsersController, ChatController}
MiddlewareClasses == {BlessingMiddleware}

is_provider(X) == X \in ProviderClasses

\* routes are strings, kept as their characters
RootRoute == <<"/">>
Route(name) == <<"/", name>>

----------------------------------------------------------------------------
(* Module: orwynn/base/module/module.py                                    *)

ModuleFields == {"_Providers", "_Controllers", "_Middleware", "_imports",
                 "_exports"}

\* `if X:` on a list argument: neither None nor empty
Truthy(h, arg) == arg # None /\ h[arg] # <<>>

\* the position of the first element of s that is not in Good, 0 if none:
\* where the loop over the list raises
RECURSIVE FirstBad(_, _, _)
FirstBad(s, Good, i) ==
    IF i > Len(s) THEN 0
    ELSE IF s[i] \notin Good THEN i
    ELSE FirstBad(s, Good, i + 1)

\* validate_route: a route starts with the separator and, unless it is the
\* root route, does not end with it
validate_route(route) ==
    route[1] = "/" /\ (route = RootRoute \/ route[Len(route)] # "/")

\* Module._parse_route
_parse_route(route) ==
    IF route # <<>>
    THEN [err |-> IF validate_route(route) THEN "" ELSE "InvalidRouteError",
          route |-> route]
    ELSE [err |-> "EmptyRouteError", route |-> route]

\* the list a _parse_* method returns over heap h: the argument itself when
\* it is given and not empty, a new empty list otherwise
ParsedList(h, arg) ==
    IF Truthy(h, arg)
    THEN [err |-> "", ref |-> arg, heap |-> h]
    ELSE [err |-> "", ref |-> Len(h) + 1, heap |-> Append(h, <<>>)]

\* Module._parse_providers
_parse_providers(h, arg) ==
    LET i == IF Truthy(h, arg)
             THEN FirstBad(h[arg], ProviderClasses \ FrameworkServices, 1)
             ELSE 0
    IN  IF i = 0 THEN ParsedList(h, arg)
        ELSE [err |-> IF ~is_provider(h[arg][i])
                      THEN "NotProviderError"
                      ELSE "FrameworkServiceModuleReferenceError",
              ref |-> None, heap |-> h]

\* Module._parse_controllers
_parse_controllers(h, arg) ==
    LET i == IF Truthy(h, arg)
             THEN FirstBad(h[arg], ControllerClasses, 1) ELSE 0
    IN  IF i = 0 THEN ParsedList(h, arg)
        ELSE [err |-> "ValidationError", ref |-> None, heap |-> h]

\* Module._parse_middleware
_parse_middleware(h, arg) ==
    LET i == IF Truthy(h, arg)
             THEN FirstBad(h[arg], MiddlewareClasses, 1) ELSE 0
    IN  IF i = 0 THEN ParsedList(h, arg)
        ELSE [err |-> "ValidationError", ref |-> None, heap |-> h]

\* Module._parse_imports: every element is a constructed Module
_parse_imports(h, ms, arg) ==
    LET i == IF Truthy(h, arg)
             THEN FirstBad(h[arg], DOMAIN ms, 1) ELSE 0
    IN  IF i = 0 THEN ParsedList(h, arg)
        ELSE [err |-> "ValidationError", ref |-> None, heap |-> h]

\* Module.__init__: the fields are parsed in the order of the source, the
\* first error aborts the construction; _exports is parsed from Providers,
\* the exports argument is validated and not read again
Module__init__(h, ms, route, aProviders, aControllers, aMiddleware, aImports, aExports) ==
    LET r == _parse_route(route)
        p == _parse_providers(h, aProviders)
        c == _parse_controllers(p.heap, aControllers)
        w == _parse_middleware(c.heap, aMiddleware)
        i == _parse_imports(w.heap, ms, aImports)
        e == _parse_providers(i.heap, aProviders)
        error == IF r.err # "" THEN r.err
                 ELSE IF p.err # "" THEN p.err
                 ELSE IF c.err # "" THEN c.err
                 ELSE IF w.err # "" THEN w.err
                 ELSE IF i.err # "" THEN i.err
                 ELSE e.err
    IN  IF error # ""
        THEN [err |-> error, heap |-> h, module |-> NoModule]
        ELSE [err |-> "", heap |-> e.heap,
              module |-> [ROUTE |-> r.route,
                          _Providers |-> p.ref,
                          _Controllers |-> c.ref,
                          _Middleware |-> w.ref,
                          _imports |-> i.ref,
                          _exports |-> e.ref]]

\* a variant of the imports accessor that reads the neighbouring field
imports_of_middleware(m) == heap[mods[m]._Middleware]

\* the accessors: each returns copy.copy of the stored list
ROUTE(m) == mods[m].ROUTE
Providers(m) == heap[mods[m]._Providers]
Controllers(m) == heap[mods[m]._Controllers]
Middleware(m) == heap[mods[m]._Middleware]
imports(m) == heap[mods[m]._imports]
exports(m) == heap[mods[m]._exports]

\* the value an accessor returns for a stored field
Accessor(m, f) ==
    CASE f = "_Providers" -> Providers(m)
      [] f = "_Controllers" -> Controllers(m)
      [] f = "_Middleware" -> Middleware(m)
      [] f = "_imports" -> imports(m)
      [] f = "_exports" -> exports(m)

Range(s) == {s[i] : i \in DOMAIN s}

----------------------------------------------------------------------------
(* User code over modules: constructor calls with list literals, accessor  *)
(* calls, and appends to the lists it holds.                               *)

\* an argument of a call: absent, or a list literal
Absent == [given |-> FALSE, value |-> <<>>]
Lit(s) == [given |-> TRUE, value |-> s]

\* before any Module(...) call
NoCall == [made |-> FALSE, route |-> <<>>, Providers |-> Absent]

\* the list object a literal argument creates over heap h
Alloc(h, a) ==
    IF a.given THEN [ref |-> Len(h) + 1, heap |-> Append(h, a.value)]
    ELSE [ref |-> None, heap |-> h]

\* the lists a call for module m passed, each with the parameter it was
\* passed as
Passed(m, p, c, w, i, e) ==
    LET pairs == {<<p, "_Providers">>, <<c, "_Controllers">>,
                  <<w, "_Middleware">>, <<i, "_imports">>,
                  <<e, "_exports">>}
        given == {x \in pairs : x[1] # None}
    IN  [r \in {x[1] : x \in given} |->
            [kind |-> (CHOOSE x \in given : x[1] = r)[2], owner |-> m]]

\* m = Module(route=..., Providers=..., Controllers=..., Middleware=...,
\*            imports=..., exports=...) run over the program state st: the
\* literals are created, the constructor runs, the caller keeps the lists
Declared(st, m, route, aP, aC, aW, aI, aE) ==
    LET p == Alloc(st.heap, aP)
        c == Alloc(p.heap, aC)
        w == Alloc(c.heap, aW)
        i == Alloc(w.heap, aI)
        e == Alloc(i.heap, aE)
        res == Module__init__(e.heap, st.mods, route, p.ref, c.ref, w.ref,
                              i.ref, e.ref)
    IN  IF res.err = ""
        THEN [err |-> "", heap |-> res.heap,
              mods |-> st.mods @@ (m :> res.module),
              held |-> st.held @@ Passed(m, p.ref, c.ref, w.ref, i.ref,
                                           e.ref)]
        ELSE [err |-> res.err, heap |-> st.heap, mods |-> st.mods,
              held |-> st.held]

ModuleInit(m, route, aP, aC, aW, aI, aE) ==
    LET st == Declared([heap |-> heap, mods |-> mods, held |-> held],
                       m, route, aP, aC, aW, aI, aE)
    IN  /\ m \notin DOMAIN mods
        /\ last_error' = st.err
        /\ last_call' = [made |-> TRUE, route |-> route, Providers |-> aP]
        /\ heap' = st.heap
        /\ mods' = st.mods
        /\ held' = st.held
        /\ UNCHANGED <<returned, appended>>

\* a variant of the accessor call that hands out the stored list itself
AccessorCall_without_copy(m, f) ==
    /\ m \in DOMAIN mods
    /\ Cardinality(returned) < MaxCopies
    /\ held' = (mods[m][f] :> [kind |-> f, owner |-> m]) @@ held
    /\ returned' = returned \cup {mods[m][f]}
    /\ UNCHANGED <<heap, mods, last_error, last_call, appended>>

\* x = m.Providers (or Controllers, Middleware, imports, exports)
AccessorCall(m, f) ==
    /\ m \in DOMAIN mods
    /\ Cardinality(returned) < MaxCopies
    /\ heap' = Append(heap, Accessor(m, f))
    /\ held' = held @@ ((Len(heap) + 1) :> [kind |-> f, owner |-> m])
    /\ returned' = returned \cup {Len(heap) + 1}
    /\ UNCHANGED <<mods, last_error, last_call, appended>>

\* what user code appends to a list of each kind
AppendChoices(kind) ==
    CASE kind \in {"_Providers", "_exports"} -> {KingConfig, AppService}
      [] kind = "_Controllers" -> {KingController}
      [] kind = "_Middleware" -> {BlessingMiddleware}
      [] kind = "_imports" -> DOMAIN mods

\* l.append(x) on a list the user code holds
ListAppend(l, x) ==
    /\ l \in DOMAIN held
    /\ x \in AppendChoices(held[l].kind)
    /\ heap' = [heap EXCEPT ![l] = Append(@, x)]
    /\ appended' = appended + 1
    /\ UNCHANGED <<mods, held, returned, last_error, last_call>>

\* the modules of the module-layer runs, in the order they are constructed
castle_module == "castle_module"
medieval_module == "medieval_module"
LayerModules == <<castle_module, medieval_module>>

\* the arguments of the calls: the first module is declared with providers
\* and exports, the second with controllers, middleware and imports
RouteArgs(k) ==
    IF k = 1 THEN {<<>>, RootRoute, <<"/", "a", "/">>}
    ELSE {Route("b")}
ProvidersArgs(k) ==
    IF k = 1 THEN {Absent, Lit(<<>>), Lit(<<KingService, KingConfig>>),
                   Lit(<<KingService, AppService>>), Lit(<<PlainClass>>),
                   Lit(<<PlainClass, AppService>>)}
    ELSE {Absent}
ControllersArgs(k) ==
    IF k = 1 THEN {Absent} ELSE {Lit(<<KingController>>)}
MiddlewareArgs(k) ==
    IF k = 1 THEN {Absent} ELSE {Lit(<<BlessingMiddleware>>)}
ImportsArgs(k) ==
    IF k = 1 THEN {Absent} ELSE {Absent, Lit(<<castle_module>>)}
ExportsArgs(k) ==
    IF k = 1 THEN {Absent, Lit(<<KingService>>)} ELSE {Absent}

NoInstance == [type |-> "", id |-> 0, args |-> <<>>]

NoSigs == [P \in ProviderClasses |-> <<>>]

\* Boot was not called: no arguments, nothing looked up, registered or added
NoArgs == [ErrorHandlers |-> <<>>, cors |-> FALSE]
NoLookups == [fault |-> "none", controllers |-> <<>>, missing |-> {}]
NoRoutes == [bindings |-> <<>>, invocations |-> <<>>]
NoApp == [middleware |-> <<>>, cors |-> FALSE, handlers |-> <<>>]
NeverBuilt ==
    [boots |-> 0, discards |-> 0, discarded |-> {}, built |-> FALSE,
     first |-> <<>>]

WebIdle ==
    /\ boot_args = NoArgs
    /\ di = NoLookups
    /\ router = NoRoutes
    /\ app = NoApp
    /\ life = NeverBuilt

BootIdle ==
    /\ WebIdle
    /\ root = NoModule
    /\ stack = <<>>
    /\ collected = <<>>
    /\ circular = FALSE
    /\ err = ""
    /\ depmap = <<>>
    /\ container = <<>>
    /\ ctor_calls = [P \in ProviderClasses |-> 0]
    /\ init_order = <<>>
    /\ found = NoInstance

NoModules ==
    /\ heap = <<>>
    /\ mods = <<>>
    /\ held = <<>>
    /\ returned = {}
    /\ last_error = ""
    /\ last_call = NoCall
    /\ appended = 0

Init ==
    /\ NoModules
    /\ sigs = NoSigs
    /\ pc = "modules"
    /\ BootIdle

Construct ==
    \E k \in DOMAIN LayerModules :
        /\ pc = "modules"
        /\ LayerModules[k] \notin DOMAIN mods
        /\ \A j \in 1..(k - 1) : LayerModules[j] \in DOMAIN mods
        /\ \E route \in RouteArgs(k), aP \in ProvidersArgs(k),
              aC \in ControllersArgs(k), aW \in MiddlewareArgs(k),
              aI \in ImportsArgs(k), aE \in ExportsArgs(k) :
                ModuleInit(LayerModules[k], route, aP, aC, aW, aI, aE)
        /\ UNCHANGED <<sigs, boot_vars, web_vars>>

Access ==
    /\ pc = "modules"
    /\ \E m \in DOMAIN mods, f \in ModuleFields : AccessorCall(m, f)
    /\ UNCHANGED <<sigs, boot_vars, web_vars>>

Mutate ==
    /\ pc = "modules"
    /\ appended < MaxAppends
    /\ \E l \in DOMAIN held : \E x \in AppendChoices(held[l].kind) :
            ListAppend(l, x)
    /\ UNCHANGED <<sigs, boot_vars, web_vars>>

Next == Construct \/ Access \/ Mutate

Spec == Init /\ [][Next]_vars

----------------------------------------------------------------------------
(* The DI pipeline: collect_modules, collect_providers_dependencies, the   *)
(* circularity check, init_providers and the container.                    *)

\* the providers the framework hands to the dependency collection itself
BuiltinProviders == <<AppService>>

NoDuplicates(s) == \A i, j \in DOMAIN s : s[i] = s[j] => i = j

\* the modules on the traversal's current chain
Chain == {stack[i].m : i \in DOMAIN stack}

\* collect_modules(root_module): the traversal starts at the root
StartCollect(r) ==
    /\ root' = r
    /\ stack' = <<[m |-> r, i |-> 1]>>
    /\ collected' = <<r>>
    /\ circular' = FALSE
    /\ pc' = "collect"

\* a variant of the traversal's verdict that keeps no chain: an import of a
\* module collected before is passed over, wherever that module is
ImportVerdict_without_chain(m, n, chain, seen) ==
    IF n = m THEN "self"
    ELSE IF n \in seen THEN "seen"
    ELSE "enter"

\* a variant of the traversal's verdict that looks at the chain first, so
\* that a module importing itself counts as a cycle like any other
ImportVerdict_chain_first(m, n, chain, seen) ==
    IF n \in chain THEN "cycle"
    ELSE IF n \in seen THEN "seen"
    ELSE "enter"

\* what the traversal does with the import n it reads in module m:
\* a self-import fails at once, an import of a module on the current chain
\* is a cycle, reported when the traversal ends, a module collected before
\* is passed over, any other is collected and entered
ImportVerdict(m, n, chain, seen) ==
    IF n = m THEN "self"
    ELSE IF n \in chain THEN "cycle"
    ELSE IF n \in seen THEN "seen"
    ELSE "enter"

\* one step of the traversal of collect_modules
CollectStep ==
    /\ pc = "collect"
    /\ LET top == stack[Len(stack)]
           imps == imports(top.m)
           rest == SubSeq(stack, 1, Len(stack) - 1)
           advanced == Append(rest, [m |-> top.m, i |-> top.i + 1])
       IN  IF top.i > Len(imps)
           THEN /\ stack' = rest
                /\ IF rest # <<>>
                   THEN UNCHANGED <<pc, err>>
                   ELSE IF circular
                   THEN pc' = "failed" /\ err' = "CircularModuleImportError"
                   ELSE pc' = "deps" /\ UNCHANGED err
                /\ UNCHANGED <<collected, circular>>
           ELSE LET n == imps[top.i]
                    v == ImportVerdict(top.m, n, Chain, Range(collected))
                IN  CASE v = "self" ->
                            /\ pc' = "failed"
                            /\ err' = "SelfImportError"
                            /\ stack' = <<>>
                            /\ UNCHANGED <<collected, circular>>
                      [] v = "cycle" ->
                            /\ circular' = TRUE
                            /\ stack' = advanced
                            /\ UNCHANGED <<pc, err, collected>>
                      [] v = "seen" ->
                            /\ stack' = advanced
                            /\ UNCHANGED <<pc, err, collected, circular>>
                      [] v = "enter" ->
                            /\ stack' = Append(advanced, [m |-> n, i |-> 1])
                            /\ collected' = Append(collected, n)
                            /\ UNCHANGED <<pc, err, circular>>
    /\ UNCHANGED <<module_vars, web_vars, sigs, root, depmap, container, ctor_calls,
                   init_order, found>>

\* the providers a provider of module m may depend on: the module's own,
\* the exports of the modules it imports, and the builtin providers
VisibilitySet(m) ==
    Range(Providers(m))
        \cup UNION {Range(exports(n)) : n \in Range(imports(m))}
        \cup Range(BuiltinProviders)

\* the provider-typed annotations of a signature, in declared order
RECURSIVE ProviderAnnotations(_)
ProviderAnnotations(sig) ==
    IF sig = <<>> THEN <<>>
    ELSE IF is_provider(Head(sig))
    THEN <<Head(sig)>> \o ProviderAnnotations(Tail(sig))
    ELSE ProviderAnnotations(Tail(sig))

\* a variant of the dependency list that takes every parameter of a Config
\* for a value to parse
Dependencies_of_services_only(P) ==
    IF P \in ConfigClasses THEN <<>> ELSE ProviderAnnotations(sigs[P])

\* the dependency list of provider P
Dependencies(P) == ProviderAnnotations(sigs[P])

\* the providers to map, in order, each with the module that declares it
\* (the builtin providers come first and belong to no module)
RECURSIVE DeclaredProviders(_)
DeclaredProviders(ms) ==
    IF ms = <<>> THEN <<>>
    ELSE [i \in DOMAIN Providers(Head(ms)) |->
            [P |-> Providers(Head(ms))[i], m |-> Head(ms)]]
         \o DeclaredProviders(Tail(ms))

\* the builtin providers bs that none of the declarations ds names
RECURSIVE Undeclared(_, _)
Undeclared(bs, ds) ==
    IF bs = <<>> THEN <<>>
    ELSE (IF \E i \in DOMAIN ds : ds[i].P = Head(bs) THEN <<>>
          ELSE <<[P |-> Head(bs), m |-> NoModule]>>)
         \o Undeclared(Tail(bs), ds)

\* a builtin provider Boot has added to the root module's list is mapped
\* as the root module's provider
AllDeclared(ms) ==
    Undeclared(BuiltinProviders, DeclaredProviders(ms))
    \o DeclaredProviders(ms)

\* the map built from the declarations ds, from position k on, after map
RECURSIVE BuildMap(_, _, _)
BuildMap(ds, k, map) ==
    IF k > Len(ds) THEN [err |-> "", map |-> map]
    ELSE LET d == ds[k]
             deps == Dependencies(d.P)
             visible == IF d.m = NoModule THEN Range(BuiltinProviders)
                        ELSE VisibilitySet(d.m)
         IN  IF \E j \in DOMAIN map : map[j].P = d.P
             THEN [err |-> "ProviderAlreadyInitializedForMapError",
                   map |-> <<>>]
             ELSE IF ~(Range(deps) \subseteq visible)
             THEN [err |-> "MissingDependencyError", map |-> <<>>]
             ELSE BuildMap(ds, k + 1,
                           Append(map, [P |-> d.P, deps |-> deps]))

\* collect_providers_dependencies(modules, BuiltinProviders)
collect_providers_dependencies(ms) == BuildMap(AllDeclared(ms), 1, <<>>)

MapProviders(map) == {map[j].P : j \in DOMAIN map}
DepsIn(map, P) == (CHOOSE j \in DOMAIN map : map[j].P = P)
MapDeps(map, P) == map[DepsIn(map, P)].deps

CollectDependencies ==
    /\ pc = "deps"
    /\ LET res == collect_providers_dependencies(collected)
       IN  IF res.err = ""
           THEN /\ depmap' = res.map
                /\ pc' = "circular"
                /\ UNCHANGED err
           ELSE /\ err' = res.err
                /\ pc' = "failed"
                /\ UNCHANGED depmap
    /\ UNCHANGED <<module_vars, web_vars, sigs, root, stack, collected, circular,
                   container, ctor_calls, init_order, found>>

\* the providers reachable from the providers in front along dependencies
RECURSIVE Reachable(_, _, _)
Reachable(map, front, seen) ==
    LET next == UNION {Range(MapDeps(map, P)) : P \in front}
    IN  IF next \subseteq seen THEN seen
        ELSE Reachable(map, next \ seen, seen \cup next)

\* a variant of the circularity check that looks one dependency deep
HasCycle_direct(map) ==
    \E P \in MapProviders(map) : P \in Range(MapDeps(map, P))

\* provider P requires itself, directly or through other providers
OnCycle(map, P) == P \in Reachable(map, {P}, {})

HasCycle(map) == \E P \in MapProviders(map) : OnCycle(map, P)

\* the circularity check over the dependencies map
CheckCircular ==
    /\ pc = "circular"
    /\ IF HasCycle(depmap)
       THEN pc' = "failed" /\ err' = "CircularDependencyError"
       ELSE pc' = "init" /\ UNCHANGED err
    /\ UNCHANGED <<module_vars, web_vars, sigs, root, stack, collected, circular,
                   depmap, container, ctor_calls, init_order, found>>

\* a variant of the order of construction: the order of declaration
NextProvider_as_declared(map, done) ==
    LET left == {j \in DOMAIN map : map[j].P \notin done}
    IN  map[CHOOSE j \in left : \A k \in left : j <= k].P

\* the next provider to construct after those in done: the first of the map
\* whose dependencies are all constructed; when there is none, the first
\* that is left
NextProvider(map, done) ==
    LET left == {j \in DOMAIN map : map[j].P \notin done}
        ready == {j \in left : Range(map[j].deps) \subseteq done}
        pick == IF ready # {} THEN ready ELSE left
    IN  map[CHOOSE j \in pick : \A k \in pick : j <= k].P

\* a variant of the injection that fills the parameters from the last
Inject_from_last(deps, c) ==
    [i \in DOMAIN deps |-> c[deps[Len(deps) + 1 - i]].id]

\* the arguments a constructor is called with: the instances of the
\* dependencies deps in container c, in the order of the parameters
Inject(deps, c) == [i \in DOMAIN deps |-> c[deps[i]].id]

\* init_providers: one provider is constructed with the instances of its
\* dependencies, taken from the container in the order of its parameters
InitProvider ==
    /\ pc = "init"
    /\ LET done == DOMAIN container
       IN  IF done = MapProviders(depmap)
           THEN /\ pc' = "done"
                /\ UNCHANGED <<err, container, ctor_calls, init_order>>
           ELSE LET P == NextProvider(depmap, done)
                    deps == MapDeps(depmap, P)
                IN  IF Range(deps) \subseteq done
                    THEN /\ container' = container @@ (P :>
                                [type |-> P,
                                 id |-> Len(init_order) + 1,
                                 args |-> Inject(deps, container)])
                         /\ ctor_calls' =
                                [ctor_calls EXCEPT ![P] = @ + 1]
                         /\ init_order' = Append(init_order, P)
                         /\ UNCHANGED <<pc, err>>
                    ELSE /\ pc' = "failed"
                         /\ err' = "MalfunctionError"
                         /\ UNCHANGED <<container, ctor_calls, init_order>>
    /\ UNCHANGED <<module_vars, web_vars, sigs, root, stack, collected, circular,
                   depmap, found>>

MissingInstance == [type |-> "MissingDIObjectError", id |-> 0, args |-> <<>>]

\* the container's lookup of the instance of class P
Find(P) ==
    /\ pc = "done"
    /\ found' = IF P \in DOMAIN container THEN container[P]
                ELSE MissingInstance
    /\ UNCHANGED <<module_vars, web_vars, sigs, pc, root, stack, collected, circular,
                   err, depmap, container, ctor_calls, init_order>>

----------------------------------------------------------------------------
(* The programs the pipeline is run over.                                  *)

EmptyProgram == [err |-> "", heap |-> <<>>, mods |-> <<>>, held |-> <<>>]

\* Import-graph runs: user code declares the modules one after another and
\* appends modules to the import lists it passed, which the modules store
\* as they are; then any of the modules is booted as the root.
ModuleNames == <<"m1", "m2", "m3", "m4", "m5">>
ServiceNames == <<M1Service, M2Service, M3Service, M4Service, M5Service>>
GraphModules == SubSeq(ModuleNames, 1, MaxModules)

RECURSIVE EdgeCountOf(_)
EdgeCountOf(ms) ==
    IF ms = <<>> THEN 0
    ELSE (IF Head(ms) \in DOMAIN mods THEN Len(imports(Head(ms))) ELSE 0)
         + EdgeCountOf(Tail(ms))
EdgeCount == EdgeCountOf(GraphModules)

DefineModule ==
    \E k \in DOMAIN GraphModules :
        /\ pc = "define"
        /\ GraphModules[k] \notin DOMAIN mods
        /\ \A j \in 1..(k - 1) : GraphModules[j] \in DOMAIN mods
        /\ \E aI \in {Absent} \cup {Lit(<<n>>) : n \in DOMAIN mods} :
            /\ aI.given => EdgeCount < MaxEdges
            /\ ModuleInit(GraphModules[k], Route("m"),
                          Lit(<<ServiceNames[k]>>), Absent, Absent, aI,
                          Absent)
        /\ UNCHANGED <<sigs, boot_vars, web_vars>>

AppendImport ==
    /\ pc = "define"
    /\ EdgeCount < MaxEdges
    /\ \E l \in DOMAIN held :
        /\ held[l].kind = "_imports"
        /\ \E n \in DOMAIN mods : ListAppend(l, n)
    /\ UNCHANGED <<sigs, boot_vars, web_vars>>

InitGraph ==
    /\ NoModules
    /\ sigs = NoSigs
    /\ pc = "define"
    /\ BootIdle

\* Signature runs: two modules, the providers' constructor parameters are
\* declared one after another, then the application module is booted.
lib_module == "lib_module"
app_module == "app_module"

SigProgram ==
    LET lib == Declared(EmptyProgram, lib_module, Route("l"),
                        Lit(<<DConfig>>), Absent, Absent, Absent, Absent)
    IN  Declared(lib, app_module, RootRoute,
                 Lit(<<AService, BService, CService>>), Absent, Absent,
                 Lit(<<lib_module>>), Absent)

SigProviders == {AService, BService, CService, DConfig}

\* the annotations a parameter of P is declared with: a provider class, or,
\* in a Config, a value type
Annotations(P) ==
    SigProviders \cup (IF P \in ConfigClasses THEN {IntValue} ELSE {})

RECURSIVE ParamCountOf(_)
ParamCountOf(S) ==
    IF S = {} THEN 0
    ELSE LET P == CHOOSE x \in S : TRUE
         IN  Len(sigs[P]) + ParamCountOf(S \ {P})
ParamCount == ParamCountOf(SigProviders)

DeclareParam ==
    /\ pc = "declare"
    /\ ParamCount < MaxParams
    /\ \E P \in SigProviders : \E a \in Annotations(P) :
            sigs' = [sigs EXCEPT ![P] = Append(@, a)]
    /\ UNCHANGED <<module_vars, boot_vars, web_vars>>

ProgramIs(prog) ==
    /\ heap = prog.heap
    /\ mods = prog.mods
    /\ held = <<>>
    /\ returned = {}
    /\ last_error = ""
    /\ last_call = NoCall
    /\ appended = 0

BootIdleAt(r) ==
    /\ WebIdle
    /\ root = r
    /\ stack = <<>>
    /\ collected = <<>>
    /\ circular = FALSE
    /\ err = ""
    /\ depmap = <<>>
    /\ container = <<>>
    /\ ctor_calls = [P \in ProviderClasses |-> 0]
    /\ init_order = <<>>
    /\ found = NoInstance

InitSigs ==
    /\ ProgramIs(SigProgram)
    /\ sigs = NoSigs
    /\ pc = "declare"
    /\ BootIdleAt(app_module)

\* The standard test structure: tests/std.
float_module == "float_module"
number_module == "number_module"
user_module == "user_module"
text_module == "text_module"
root_module == "root_module"

StdProgram ==
    LET f == Declared(EmptyProgram, float_module, Route("f"),
                      Lit(<<FloatService>>), Lit(<<FloatController>>),
                      Absent, Absent, Absent)
        n == Declared(f, number_module, Route("n"),
                      Lit(<<NumberService>>), Lit(<<NumberController>>),
                      Absent, Lit(<<float_module>>), Absent)
        u == Declared(n, user_module, Route("u"), Absent, Absent, Absent,
                      Absent, Absent)
        t == Declared(u, text_module, Route("t"),
                      Lit(<<TextService, TextConfig, BootConfig>>),
                      Lit(<<TextController>>), Absent,
                      Lit(<<number_module, float_module, user_module>>),
                      Absent)
    IN  Declared(t, root_module, RootRoute, Absent, Absent, Absent,
                 Lit(<<text_module, number_module>>), Absent)

\* the constructors' parameter annotations; App is the application service
StdSigs ==
    (TextService :> <<TextConfig, AppService, NumberService, FloatService,
                      BootConfig>>)
    @@ (NumberService :> <<AppService, FloatService>>)
    @@ (TextConfig :> <<IntValue>>)
    @@ NoSigs

InitStd ==
    /\ ProgramIs(StdProgram)
    /\ sigs = StdSigs
    /\ pc = "ready"
    /\ BootIdleAt(root_module)

\* tests.std.Assertion.COLLECTED_PROVIDERS
COLLECTED_PROVIDERS ==
    <<AppService, TextService, TextConfig, NumberService, FloatService>>

\* the list test_std expects for provider P: the annotations of the
\* constructor's parameters, a Config's parseable parameters skipped
RECURSIVE AssertionDependenciesOf(_, _)
AssertionDependenciesOf(P, sig) ==
    IF sig = <<>> THEN <<>>
    ELSE IF P \in ConfigClasses /\ ~is_provider(Head(sig))
    THEN AssertionDependenciesOf(P, Tail(sig))
    ELSE <<Head(sig)>> \o AssertionDependenciesOf(P, Tail(sig))
AssertionDependencies(P) == AssertionDependenciesOf(P, sigs[P])

\* the boot of a root module: DI(root_module)
Boot ==
    /\ \/ pc = "define" /\ Range(GraphModules) \subseteq DOMAIN mods
       \/ pc \in {"declare", "ready"}
    /\ \E r \in (IF root = NoModule THEN DOMAIN mods ELSE {root}) :
            StartCollect(r)
    /\ UNCHANGED <<module_vars, web_vars, sigs, err, depmap, container, ctor_calls,
                   init_order, found>>

Lookup ==
    /\ \E P \in MapProviders(depmap) \cup {PlainClass} : Find(P)

InitDI == InitGraph \/ InitSigs \/ InitStd

NextDI ==
    \/ DefineModule
    \/ AppendImport
    \/ DeclareParam
    \/ Boot
    \/ CollectStep
    \/ CollectDependencies
    \/ CheckCircular
    \/ InitProvider
    \/ Lookup

SpecDI == InitDI /\ [][NextDI]_vars

----------------------------------------------------------------------------
(* The import graph as the modules store it.                               *)

StoredImports(m) == heap[mods[m]._imports]

RECURSIVE ImportClosure(_, _)
ImportClosure(front, seen) ==
    LET next == UNION {Range(StoredImports(m)) : m \in front}
    IN  IF next \subseteq seen THEN seen
        ELSE ImportClosure(next \ seen, seen \cup next)

\* the modules m reaches by one import or more
ImportedFrom(m) == ImportClosure({m}, {})
ReachableModules(r) == {r} \cup ImportedFrom(r)

SelfImporting(m) == m \in Range(StoredImports(m))
\* m lies on an import cycle through another module
InLongCycle(m) == \E n \in ImportedFrom(m) \ {m} : m \in ImportedFrom(n)
ImportsAcyclic(r) == \A m \in ReachableModules(r) : m \notin ImportedFrom(m)

Booted == pc \notin {"modules", "define", "declare", "ready"}
ImportErrors == {"SelfImportError", "CircularModuleImportError"}
\* collect_modules returned its list
CollectReturned ==
    \/ pc \in {"deps", "circular", "init", "done"}
    \/ pc = "failed" /\ err \notin ImportErrors
CollectEnded == Booted /\ pc # "collect"

\* the reads the traversal has left: for a module not yet entered all its
\* imports and its entry and exit, for a module on the chain what is left of
\* its imports and its exit
ModuleWork(m) ==
    IF \E k \in DOMAIN stack : stack[k].m = m
    THEN LET k == CHOOSE j \in DOMAIN stack : stack[j].m = m
         IN  Len(imports(m)) + 2 - stack[k].i
    ELSE IF m \in Range(collected) THEN 0
    ELSE Len(imports(m)) + 2

RECURSIVE WorkOf(_)
WorkOf(S) ==
    IF S = {} THEN 0
    ELSE LET m == CHOOSE x \in S : TRUE
         IN  ModuleWork(m) + WorkOf(S \ {m})
CollectWork == WorkOf(DOMAIN mods)

----------------------------------------------------------------------------
(* Module collection.                                                      *)

----------------------------------------------------------------------------
(* Provider dependencies, circularity and instantiation.                   *)

\* the providers P requires by its constructor's annotations, and those it
\* requires through them
Requires(P) == {Q \in Range(sigs[P]) : Q \in ProviderClasses}

RECURSIVE RequiresClosure(_, _)
RequiresClosure(front, seen) ==
    LET next == UNION {Requires(P) : P \in front}
    IN  IF next \subseteq seen THEN seen
        ELSE RequiresClosure(next \ seen, seen \cup next)

DependencyCycle ==
    \E P \in MapProviders(depmap) : P \in RequiresClosure({P}, {})

\* C4: when the mapped providers' dependencies contain a cycle, the boot
\* fails with CircularDependencyError, and it does so before any
\* constructor is called: nothing is constructed or stored.
C4_CycleBeforeInstantiation ==
    /\ (depmap # <<>> /\ DependencyCycle /\ pc # "circular") =>
            pc = "failed" /\ err = "CircularDependencyError"
    /\ (pc \in {"init", "done"} \/ err = "MalfunctionError") =>
            ~DependencyCycle
    /\ err = "CircularDependencyError" =>
            /\ DependencyCycle
            /\ \A P \in ProviderClasses : ctor_calls[P] = 0
            /\ container = <<>>
            /\ init_order = <<>>

\* a cycle through three providers has been reported
C4_Witness ==
    /\ err = "CircularDependencyError"
    /\ \E A \in MapProviders(depmap) :
        \E B \in Requires(A) \ {A} :
            \E C \in Requires(B) \ {A, B} : A \in Requires(C)

\* C5: a provider is constructed only after every provider it depends on,
\* and the instantiator never fails with MalfunctionError.
C5_DependenciesFirst ==
    /\ \A k \in DOMAIN init_order :
            \A Q \in Requires(init_order[k]) :
                \E j \in 1..(k - 1) : init_order[j] = Q
    /\ err # "MalfunctionError"

\* every provider is constructed, one of them after a dependency that is
\* declared later than it
C5_Witness ==
    /\ pc = "done"
    /\ \E P \in MapProviders(depmap) : \E Q \in Requires(P) :
            DepsIn(depmap, Q) > DepsIn(depmap, P)

\* C6: every provider's constructor is called at most once, and exactly
\* once when the boot is done; every constructor receives, parameter by
\* parameter, the one instance the container holds for the dependency;
\* a lookup returns that instance and leaves the container as it is.
C6_OneSharedInstance ==
    /\ [](/\ \A P \in ProviderClasses : ctor_calls[P] <= 1
          /\ DOMAIN container = {P \in ProviderClasses : ctor_calls[P] = 1}
          /\ pc = "done" => DOMAIN container = MapProviders(depmap)
          /\ \A P \in DOMAIN container :
                /\ container[P].type = P
                /\ \A Q \in DOMAIN container :
                        container[P].id = container[Q].id => P = Q
                /\ LET deps == MapDeps(depmap, P)
                   IN  /\ Len(container[P].args) = Len(deps)
                       /\ \A i \in DOMAIN deps :
                            /\ deps[i] \in DOMAIN container
                            /\ container[P].args[i] = container[deps[i]].id
          /\ found.type \in DOMAIN container => found = container[found.type])
    /\ [][pc = "done" =>
            container' = container /\ ctor_calls' = ctor_calls]_vars

\* two providers were constructed with the same instance, and a lookup
\* returned it
C6_Witness ==
    /\ pc = "done"
    /\ found.id # 0
    /\ \E P \in DOMAIN container, Q \in DOMAIN container :
        /\ P # Q
        /\ found.id \in Range(container[P].args)
        /\ found.id \in Range(container[Q].args)

C8_StdMapKeys ==
    (root = root_module /\ depmap # <<>>) =>
        /\ MapProviders(depmap) = Range(COLLECTED_PROVIDERS)
        /\ Len(depmap) = Len(COLLECTED_PROVIDERS)

----------------------------------------------------------------------------
(* The module's lists.                                                     *)

\* the lists module B was given as exports, and what the list holds
ExportsGiven(B) ==
    {l \in DOMAIN held \ returned :
        held[l].kind = "_exports" /\ held[l].owner = B}
ExportsArgument(B) == heap[CHOOSE l \in ExportsGiven(B) : TRUE]

\* C9: the exports accessor of a module that was given a list of exports
\* returns only the types of that list, so that a provider a module declares and does not export is
\* not in the visibility set of a module importing it.
C9_OnlyExportsVisible ==
    appended = 0 =>
        \A B \in {m \in DOMAIN mods : ExportsGiven(m) # {}} :
            /\ Range(exports(B)) \subseteq Range(ExportsArgument(B))
            /\ \A A \in DOMAIN mods :
                B \in Range(imports(A)) =>
                    \A P \in Range(Providers(B)) :
                        P \in VisibilitySet(A) =>
                            \/ P \in Range(ExportsArgument(B))
                            \/ P \in Range(Providers(A))
                            \/ P \in Range(BuiltinProviders)

StoredRefs == {mods[m][f] : m \in DOMAIN mods, f \in ModuleFields}
StoredLists ==
    [m \in DOMAIN mods |-> [f \in ModuleFields |-> heap[mods[m][f]]]]

C11_NoFrameworkServiceInModules ==
    /\ (/\ last_call.made
        /\ Range(last_call.Providers.value) \cap FrameworkServices # {})
            => last_error = "FrameworkServiceModuleReferenceError"
    /\ \A m \in DOMAIN mods :
            Range(heap[mods[m]._Providers]) \cap FrameworkServices = {}

\* C12: the route of every constructed module is not empty, is not the
\* root route "/" and does not end with the separator; a Module(...) call
\* with an empty route fails with EmptyRouteError.
C12_RouteWellFormed ==
    /\ \A m \in DOMAIN mods :
        /\ ROUTE(m) # <<>>
        /\ ROUTE(m) # RootRoute
        /\ ROUTE(m)[Len(ROUTE(m))] # "/"
    /\ (last_call.made /\ last_call.route = <<>>)
            => last_error = "EmptyRouteError"

----------------------------------------------------------------------------
(* Boot: orwynn/boot/Boot.py                                               *)

\* the HTTP methods, in the order of the enumeration
HTTPMethod == <<"get", "post", "put", "delete", "patch", "options">>

HTTPControllers == ControllerClasses \ {ChatController}

\* the ROUTE and the methods of a controller class
ControllerROUTE(C) ==
    IF C \in {TextController, NumberController} THEN RootRoute
    ELSE IF C = UsersController THEN Route("users")
    ELSE IF C = ChatController THEN Route("chat")
    ELSE Route("king")
ControllerMETHODS(C) ==
    IF C = UsersController THEN {"get", "post"}
    ELSE IF C = ChatController THEN {}
    ELSE {"get"}

\* web.join_routes(module route, controller route)
join_routes(a, b) == IF a = RootRoute THEN b ELSE a \o b

\* the controller instances DI holds for the modules ms: one instance for
\* each module and each controller class the module declares
RECURSIVE ControllerInstances(_, _)
ControllerInstances(ms, n) ==
    IF ms = <<>> THEN <<>>
    ELSE LET Cs == Controllers(Head(ms))
         IN  [i \in DOMAIN Cs |->
                [type |-> Cs[i], id |-> n + i, owner |-> Head(ms),
                 route |-> ControllerROUTE(Cs[i]),
                 methods |-> ControllerMETHODS(Cs[i])]]
             \o ControllerInstances(Tail(ms), n + Len(Cs))

\* the middleware instances DI holds for the modules ms
RECURSIVE MiddlewareInstances(_)
MiddlewareInstances(ms) ==
    IF ms = <<>> THEN <<>>
    ELSE Middleware(Head(ms)) \o MiddlewareInstances(Tail(ms))

\* the ways the controller list may break the DI's promise of one validated
\* instance per declared class: an instance is missing, or an instance
\* passed Controller.__init__ without a method
Faults == {"none", "missing instance", "no method"}
Faulty(fault, cs) ==
    IF fault = "missing instance" THEN Tail(cs)
    ELSE IF fault = "no method"
    THEN [cs EXCEPT ![Len(cs)].methods = {}]
    ELSE cs

\* the register_route calls of __register_http_for_module(c, m) for the
\* methods from position k of the enumeration on, as call number n
RECURSIVE HttpBindings(_, _, _, _)
HttpBindings(c, m, k, n) ==
    IF k > Len(HTTPMethod) THEN <<>>
    ELSE (IF HTTPMethod[k] \in c.methods
          THEN <<[route |-> join_routes(ROUTE(m), c.route),
                  method |-> HTTPMethod[k],
                  fn |-> <<c.id, HTTPMethod[k]>>,
                  call |-> n]>>
          ELSE <<>>)
         \o HttpBindings(c, m, k + 1, n)

\* a variant of the registration that binds the first declared method only
register_http_first_method_only(c, m, r) ==
    LET n == Len(r.invocations) + 1
        made == HttpBindings(c, m, 1, n)
    IN  [err |-> IF made = <<>> THEN "MalfunctionError" ELSE "",
         router |-> [bindings |-> r.bindings \o (IF made = <<>> THEN <<>>
                                                ELSE <<made[1]>>),
                     invocations |->
                        Append(r.invocations, [c |-> c, m |-> m])]]

\* Boot.__register_http_for_module(c, m) on the router r
__register_http_for_module(c, m, r) ==
    LET n == Len(r.invocations) + 1
        made == HttpBindings(c, m, 1, n)
    IN  [err |-> IF made = <<>> THEN "MalfunctionError" ELSE "",
         router |-> [bindings |-> r.bindings \o made,
                     invocations |->
                        Append(r.invocations, [c |-> c, m |-> m])]]

\* Boot.__register_websocket_controller_for_module(c, m) on the router r
__register_websocket_controller_for_module(c, m, r) ==
    LET n == Len(r.invocations) + 1
    IN  [err |-> "",
         router |-> [bindings |->
                        Append(r.bindings,
                               [route |-> join_routes(ROUTE(m), c.route),
                                method |-> "websocket",
                                fn |-> <<c.id, "process">>,
                                call |-> n]),
                     invocations |->
                        Append(r.invocations, [c |-> c, m |-> m])]]

\* Boot.__register_controller_class_for_module(m, C, controllers), from
\* position k of controllers on: every instance of class C is registered
RECURSIVE __register_controller_class_for_module(_, _, _, _, _, _)
__register_controller_class_for_module(m, C, cs, k, is_found, r) ==
    IF k > Len(cs)
    THEN [err |-> IF is_found THEN "" ELSE "MalfunctionError", router |-> r]
    ELSE IF cs[k].type # C
    THEN __register_controller_class_for_module(m, C, cs, k + 1, is_found, r)
    ELSE LET res == IF C \in HTTPControllers
                    THEN __register_http_for_module(cs[k], m, r)
                    ELSE __register_websocket_controller_for_module(cs[k], m, r)
         IN  IF res.err # "" THEN res
             ELSE __register_controller_class_for_module(m, C, cs, k + 1,
                                                       TRUE, res.router)

\* Boot.__register_routes(modules, controllers), from the j-th controller
\* class of the i-th module on
RECURSIVE __register_routes(_, _, _, _, _)
__register_routes(ms, i, j, cs, r) ==
    IF i > Len(ms) THEN [err |-> "", router |-> r]
    ELSE IF j > Len(Controllers(ms[i]))
    THEN __register_routes(ms, i + 1, 1, cs, r)
    ELSE LET res == __register_controller_class_for_module(
                        ms[i], Controllers(ms[i])[j], cs, 1, FALSE, r)
         IN  IF res.err # "" THEN res
             ELSE __register_routes(ms, i, j + 1, cs, res.router)

\* the exception classes: the framework's Error and a subclass of it, and
\* exceptions that are not the framework's
Error == "Error"
UserError == "UserError"
ValueError == "ValueError"
KeyError == "KeyError"
HTTPException == "HTTPException"
RequestValidationException == "RequestValidationException"

\* issubclass(E, Exception) and not issubclass(E, Error)
IsBuiltinException(E) == E \notin {Error, UserError}

\* get_non_framework_exceptions(): every such class once
get_non_framework_exceptions == <<ValueError, KeyError, HTTPException>>

\* the user's error handler classes and the E each declares
EH1 == "EH1"
ValueEH == "ValueEH"
SeveralEH == "SeveralEH"
HandlerClasses == {EH1, ValueEH, SeveralEH}
HandlerE(h) ==
    IF h = EH1 THEN [given |-> TRUE, classes |-> <<Error>>]
    ELSE IF h = ValueEH THEN [given |-> TRUE, classes |-> <<ValueError>>]
    ELSE [given |-> TRUE, classes |-> <<UserError, ValueError>>]

RECURSIVE BuiltinOnly(_)
BuiltinOnly(Es) ==
    IF Es = <<>> THEN <<>>
    ELSE (IF IsBuiltinException(Head(Es)) THEN <<Head(Es)>> ELSE <<>>)
         \o BuiltinOnly(Tail(Es))

\* Boot.__collect_error_handlers_data(error_handlers), from position k on
RECURSIVE __collect_error_handlers_data(_, _, _, _)
__collect_error_handlers_data(hs, k, Handled, is_default_error_handled) ==
    IF k > Len(hs)
    THEN [err |-> "", HandledBuiltinExceptions |-> Handled,
          is_default_error_handled |-> is_default_error_handled]
    ELSE IF ~HandlerE(hs[k]).given
    THEN [err |-> "MalfunctionError", HandledBuiltinExceptions |-> <<>>,
          is_default_error_handled |-> FALSE]
    ELSE __collect_error_handlers_data(hs, k + 1,
            Handled \o BuiltinOnly(HandlerE(hs[k]).classes),
            is_default_error_handled
                \/ Error \in Range(HandlerE(hs[k]).classes))

\* list.remove(x): the list without its first x
RECURSIVE Remove(_, _)
Remove(s, x) ==
    IF s = <<>> THEN <<>>
    ELSE IF Head(s) = x THEN Tail(s)
    ELSE <<Head(s)>> \o Remove(Tail(s), x)

\* the removal of each handled exception from the remaining ones; a class
\* that is not there ends it with MalfunctionError
RECURSIVE RemoveHandled(_, _)
RemoveHandled(remaining, Handled) ==
    IF Handled = <<>> THEN [err |-> "", remaining |-> remaining]
    ELSE IF Head(Handled) \notin Range(remaining)
    THEN [err |-> "MalfunctionError", remaining |-> remaining]
    ELSE RemoveHandled(Remove(remaining, Head(Handled)), Tail(Handled))

DefaultHandler(name, Es) == [handler |-> name, E |-> Es]

\* Boot.__add_error_handlers(...): the handlers added to the app, in order
__add_error_handlers(hs, Handled, is_default_error_handled) ==
    LET all == get_non_framework_exceptions
                    \o <<RequestValidationException>>
        res == RemoveHandled(all, Handled)
        rest == Remove(Remove(res.remaining, HTTPException),
                       RequestValidationException)
    IN  IF res.err # "" THEN [err |-> res.err, added |-> <<>>]
        ELSE [err |-> "",
              added |->
                (IF HTTPException \in Range(res.remaining)
                 THEN <<DefaultHandler("DefaultHTTPExceptionHandler",
                                       <<HTTPException>>)>>
                 ELSE <<>>)
                \o (IF RequestValidationException \in Range(res.remaining)
                    THEN <<DefaultHandler(
                                "DefaultRequestValidationExceptionHandler",
                                <<RequestValidationException>>)>>
                    ELSE <<>>)
                \o (IF rest # <<>>
                    THEN <<DefaultHandler("DefaultExceptionHandler", rest)>>
                    ELSE <<>>)
                \o (IF ~is_default_error_handled
                    THEN <<DefaultHandler("DefaultErrorHandler", <<Error>>)>>
                    ELSE <<>>)
                \o [i \in DOMAIN hs |->
                        [handler |-> hs[i], E |-> HandlerE(hs[i]).classes]]]

\* Boot.__register_error_handlers(), given the handlers DI holds
__register_error_handlers(hs) ==
    LET data == __collect_error_handlers_data(hs, 1, <<>>, FALSE)
    IN  IF data.err # "" THEN [err |-> data.err, added |-> <<>>]
        ELSE __add_error_handlers(hs, data.HandledBuiltinExceptions,
                                data.is_default_error_handled)

\* a variant of the addition that appends the provider whether or not the
\* module's list holds it
add_provider_again(h, ms, m, P) ==
    [h EXCEPT ![ms[m]._Providers] = Append(@, P)]

\* Module.add_provider_or_skip(P): P is appended to the module's provider
\* list unless the list holds it
add_provider_or_skip(h, ms, m, P) ==
    IF P \in Range(h[ms[m]._Providers]) THEN h
    ELSE [h EXCEPT ![ms[m]._Providers] = Append(@, P)]

\* Boot runs: a root module that imports one module; user code chooses the
\* controllers of both and the middleware of the imported one, boots the
\* root module, discards the worker and boots the same root module again.
ControllersChoices(m) ==
    IF m = root_module
    THEN {Absent, Lit(<<TextController>>),
          Lit(<<TextController, UsersController>>)}
    ELSE {Absent, Lit(<<TextController>>), Lit(<<ChatController>>)}

BootProgram(aC, aCt, aWt) ==
    LET t == Declared(EmptyProgram, text_module, Route("text"), Absent, aCt,
                      aWt, Absent, Absent)
    IN  Declared(t, root_module, RootRoute, Lit(<<KingService>>), aC,
                 Absent, Lit(<<text_module>>), Absent)

BootSigs == [NoSigs EXCEPT ![KingService] = <<AppService, LogConfig>>]

\* the ErrorHandlers and cors arguments user code may pass
HandlerLists ==
    {hs \in UNION {[1..n -> HandlerClasses] : n \in 0..MaxHandlers} :
        NoDuplicates(hs)}
BootArgs == [ErrorHandlers : HandlerLists, cors : BOOLEAN]

InitBoot ==
    /\ \E aC \in ControllersChoices(root_module) :
       \E aCt \in ControllersChoices(text_module) :
       \E aWt \in {Absent, Lit(<<BlessingMiddleware>>)} :
            ProgramIs(BootProgram(aC, aCt, aWt))
    /\ sigs = BootSigs
    /\ pc = "ready"
    /\ BootIdleAt(root_module)

\* Boot.__init__ up to DI(root_module): the builtin providers are added to
\* the root module and the modules are collected from it
BootStart ==
    /\ pc = "ready"
    /\ life.boots < MaxBoots
    /\ \E args \in (IF life.boots = 0 THEN BootArgs ELSE {boot_args}) :
            boot_args' = args
    /\ heap' = add_provider_or_skip(
                    add_provider_or_skip(heap, mods, root, AppService),
                    mods, root, LogConfig)
    /\ StartCollect(root)
    /\ life' = [life EXCEPT !.boots = @ + 1]
    /\ UNCHANGED <<mods, held, returned, last_error, last_call, appended,
                   sigs, err, depmap, container, ctor_calls, init_order,
                   found, di, router, app>>

\* the provider types of the container with, for each, the types of the
\* instances its constructor was given
Wiring ==
    [P \in DOMAIN container |->
        [i \in DOMAIN container[P].args |->
            CHOOSE Q \in DOMAIN container :
                container[Q].id = container[P].args[i]]]

\* Router(self.app) and Boot.__configure_log(): the app service and the log
\* configuration are looked up in the container; the first boot's
\* container is remembered
ConfigureLog ==
    /\ pc = "done"
    /\ IF {AppService, LogConfig} \subseteq DOMAIN container
       THEN pc' = "routes" /\ UNCHANGED err
       ELSE pc' = "failed" /\ err' = "MissingDIObjectError"
    /\ life' = IF life.built THEN life
               ELSE [life EXCEPT !.built = TRUE, !.first = Wiring]
    /\ UNCHANGED <<module_vars, sigs, root, stack, collected, circular,
                   depmap, container, ctor_calls, init_order, found,
                   boot_args, di, router, app>>

\* a variant of the step that lets the lookup's error through
RegisterRoutes_without_except ==
    /\ pc = "routes"
    /\ \E fault \in Faults :
        LET all == ControllerInstances(collected, 0)
            cs == Faulty(fault, all)
            res == __register_routes(collected, 1, 1, cs, router)
        IN  /\ fault # "none" => all # <<>>
            /\ IF cs = <<>>
               THEN /\ di' = [di EXCEPT !.fault = fault,
                                        !.missing = @ \cup {"controllers"}]
                    /\ pc' = "failed"
                    /\ err' = "MissingDIObjectError"
                    /\ UNCHANGED router
               ELSE /\ di' = [di EXCEPT !.fault = fault, !.controllers = cs]
                    /\ router' = res.router
                    /\ IF res.err = ""
                       THEN pc' = "middleware" /\ UNCHANGED err
                       ELSE pc' = "failed" /\ err' = res.err
    /\ UNCHANGED <<module_vars, sigs, root, stack, collected, circular,
                   depmap, container, ctor_calls, init_order, found,
                   boot_args, app, life>>

\* Boot.__init__, the routes: the controllers are looked up and registered;
\* a lookup that raises MissingDIObjectError is passed over
RegisterRoutes ==
    /\ pc = "routes"
    /\ \E fault \in Faults :
        LET all == ControllerInstances(collected, 0)
            cs == Faulty(fault, all)
            res == __register_routes(collected, 1, 1, cs, router)
        IN  /\ fault # "none" => all # <<>>
            /\ IF cs = <<>>
               THEN /\ di' = [di EXCEPT !.fault = fault,
                                        !.missing = @ \cup {"controllers"}]
                    /\ pc' = "middleware"
                    /\ UNCHANGED <<router, err>>
               ELSE /\ di' = [di EXCEPT !.fault = fault, !.controllers = cs]
                    /\ router' = res.router
                    /\ IF res.err = ""
                       THEN pc' = "middleware" /\ UNCHANGED err
                       ELSE pc' = "failed" /\ err' = res.err
    /\ UNCHANGED <<module_vars, sigs, root, stack, collected, circular,
                   depmap, container, ctor_calls, init_order, found,
                   boot_args, app, life>>

\* Boot.__init__, the middleware: looked up and added to the app; a lookup
\* that raises MissingDIObjectError is passed over
RegisterMiddleware ==
    /\ pc = "middleware"
    /\ LET ws == MiddlewareInstances(collected)
       IN  IF ws = <<>>
           THEN /\ di' = [di EXCEPT !.missing = @ \cup {"all_middleware"}]
                /\ UNCHANGED app
           ELSE /\ app' = [app EXCEPT !.middleware = @ \o ws]
                /\ UNCHANGED di
    /\ pc' = "cors"
    /\ UNCHANGED <<module_vars, sigs, root, stack, collected, circular, err,
                   depmap, container, ctor_calls, init_order, found,
                   boot_args, router, life>>

\* Boot.__init__, CORS: configured when the argument is given
ConfigureCors ==
    /\ pc = "cors"
    /\ app' = [app EXCEPT !.cors = boot_args.cors]
    /\ pc' = "handlers"
    /\ UNCHANGED <<module_vars, sigs, root, stack, collected, circular, err,
                   depmap, container, ctor_calls, init_order, found,
                   boot_args, di, router, life>>

\* Boot.__register_error_handlers(): the error handlers are looked up, a
\* lookup that raises MissingDIObjectError gives none, and the default and
\* the user's handlers are added to the app
RegisterErrorHandlers ==
    /\ pc = "handlers"
    /\ LET hs == boot_args.ErrorHandlers
           res == __register_error_handlers(hs)
       IN  /\ di' = IF hs = <<>>
                    THEN [di EXCEPT !.missing = @ \cup {"error_handlers"}]
                    ELSE di
           /\ IF res.err = ""
              THEN /\ app' = [app EXCEPT !.handlers = @ \o res.added]
                   /\ pc' = "booted"
                   /\ UNCHANGED err
              ELSE /\ pc' = "failed"
                   /\ err' = res.err
                   /\ UNCHANGED app
    /\ UNCHANGED <<module_vars, sigs, root, stack, collected, circular,
                   depmap, container, ctor_calls, init_order, found,
                   boot_args, router, life>>

\* the state the worker is in between boots
WorkerState ==
    IF pc # "ready" THEN pc
    ELSE IF life.boots = 0 /\ life.discards = 0 THEN "never built"
    ELSE "discarded"

\* a variant of the discard that validates: it is refused unless the worker
\* was built
Discard_validated ==
    /\ pc = "booted"
    /\ life.discards < MaxDiscards
    /\ life' = [life EXCEPT !.discards = @ + 1,
                            !.discarded = @ \cup {WorkerState}]
    /\ pc' = "ready"
    /\ stack' = <<>>
    /\ collected' = <<>>
    /\ circular' = FALSE
    /\ err' = ""
    /\ depmap' = <<>>
    /\ container' = <<>>
    /\ ctor_calls' = [P \in ProviderClasses |-> 0]
    /\ init_order' = <<>>
    /\ found' = NoInstance
    /\ di' = NoLookups
    /\ router' = NoRoutes
    /\ app' = NoApp
    /\ UNCHANGED <<module_vars, sigs, root, boot_args>>

\* Worker.discard(should_validate=False), as the tests' teardown calls it
\* on every worker: whatever the worker's state, the container and what
\* the boot built on it are cleared; the user's modules stay as they are
Discard ==
    /\ pc \in {"ready", "failed", "booted"}
    /\ life.discards < MaxDiscards
    /\ life' = [life EXCEPT !.discards = @ + 1,
                            !.discarded = @ \cup {WorkerState}]
    /\ pc' = "ready"
    /\ stack' = <<>>
    /\ collected' = <<>>
    /\ circular' = FALSE
    /\ err' = ""
    /\ depmap' = <<>>
    /\ container' = <<>>
    /\ ctor_calls' = [P \in ProviderClasses |-> 0]
    /\ init_order' = <<>>
    /\ found' = NoInstance
    /\ di' = NoLookups
    /\ router' = NoRoutes
    /\ app' = NoApp
    /\ UNCHANGED <<module_vars, sigs, root, boot_args>>

NextBoot ==
    \/ BootStart
    \/ CollectStep
    \/ CollectDependencies
    \/ CheckCircular
    \/ InitProvider
    \/ ConfigureLog
    \/ RegisterRoutes
    \/ RegisterMiddleware
    \/ ConfigureCors
    \/ RegisterErrorHandlers
    \/ Discard

SpecBoot == InitBoot /\ [][NextBoot]_vars

----------------------------------------------------------------------------
(* The boot as the claims speak of it.                                     *)

\* the route registration went through with a controller list
RoutesRegistered ==
    /\ pc \in {"middleware", "cors", "handlers", "booted"}
    /\ "controllers" \notin di.missing

\* the modules of the boot, each with a controller class it declares
DeclaredControllers ==
    {mC \in Range(collected) \X ControllerClasses :
        mC[2] \in Range(Controllers(mC[1]))}

\* the calls that registered an instance of class C for module m
RegistrationsOf(m, C) ==
    {k \in DOMAIN router.invocations :
        /\ router.invocations[k].m = m
        /\ router.invocations[k].c.type = C}

\* C13: for each module and each controller class it declares exactly one
\* controller instance is registered, also when the controller list holds
\* several instances of the class; no (route, method) binding is registered
\* more than once; a class with no instance ends the registration with
\* MalfunctionError.
C13_OneInstancePerModuleAndClass ==
    /\ RoutesRegistered =>
            \A mC \in DeclaredControllers :
                Cardinality(RegistrationsOf(mC[1], mC[2])) = 1
    /\ \A i, j \in DOMAIN router.bindings :
            (/\ router.bindings[i].route = router.bindings[j].route
             /\ router.bindings[i].method = router.bindings[j].method)
                => i = j
    /\ (/\ di.controllers # <<>>
        /\ \E mC \in DeclaredControllers :
                \A k \in DOMAIN di.controllers :
                    di.controllers[k].type # mC[2])
            => err = "MalfunctionError"

\* the register_route calls made by the k-th registration of a controller
\* for a module
BindingsOfCall(k) ==
    {i \in DOMAIN router.bindings : router.bindings[i].call = k}

C15_JoinedRouteWellFormed ==
    \A k \in DOMAIN router.invocations :
        \A i \in BindingsOfCall(k) :
            LET m == router.invocations[k].m
                c == router.invocations[k].c
                r == router.bindings[i].route
            IN  /\ r = IF ROUTE(m) = RootRoute THEN c.route
                        ELSE ROUTE(m) \o c.route
                /\ \A j \in 1..(Len(r) - 1) :
                        ~(r[j] = "/" /\ r[j + 1] = "/")
                /\ r # RootRoute => r[Len(r)] # "/"

\* C16: whenever Boot fails with a fatal error, no route has been
\* registered with the router.
C16_NoRouteBeforeFailure ==
    pc = "failed" => router.bindings = <<>>

\* C17: for a configuration of the user's that passes validation, with the
\* DI keeping its promise of one validated controller instance for each
\* declared class, Boot never raises MalfunctionError.
C17_NoMalfunctionOnUserInput ==
    di.fault = "none" => err # "MalfunctionError"

\* the lookup named what raised MissingDIObjectError in this step
Missed(what) == what \in di'.missing /\ what \notin di.missing

DefaultHandlers ==
    <<"DefaultHTTPExceptionHandler",
      "DefaultRequestValidationExceptionHandler",
      "DefaultExceptionHandler", "DefaultErrorHandler">>

\* C18: a MissingDIObjectError raised when Boot looks up the controllers,
\* the middleware or the error handlers is caught and taken as none
\* declared: nothing is registered for them, the boot does not fail and goes
\* on with its next step, and the default error handlers are installed.
C18_MissingLookupsRecovered ==
    /\ [](di.missing # {} => err # "MissingDIObjectError")
    /\ []((pc = "booted" /\ "error_handlers" \in di.missing) =>
            [i \in DOMAIN app.handlers |-> app.handlers[i].handler]
                = DefaultHandlers)
    /\ [][Missed("controllers") =>
            /\ pc' = "middleware"
            /\ router' = router
            /\ err' = err]_vars
    /\ [][Missed("all_middleware") =>
            /\ pc' = "cors"
            /\ app' = app
            /\ err' = err]_vars
    /\ [][Missed("error_handlers") =>
            /\ pc' = "booted"
            /\ err' = err]_vars

\* a boot went through with none of the three found
C18_Witness ==
    /\ pc = "booted"
    /\ di.missing = {"controllers", "all_middleware", "error_handlers"}
    /\ Len(app.handlers) = 4
    /\ router.bindings = <<>>

DIEnded ==
    pc \in {"done", "routes", "middleware", "cors", "handlers", "booted",
            "failed"}

TimesAdded(h) ==
    Cardinality({i \in DOMAIN app.handlers : app.handlers[i].handler = h})

\* Boot.__init__ has ended, by returning or by raising, with the DI having
\* kept its promise of one validated controller instance per declared class
BootEnded == pc \in {"booted", "failed"} /\ di.fault = "none"

\* C21: when Boot is given a user's handler whose E is Error, the
\* DefaultErrorHandler is not added and the user's handler is added exactly
\* once; when no handler of the user's has E equal to Error, alone or in a
\* list, the DefaultErrorHandler is added exactly once.
C21_DefaultErrorHandlerUnlessHandled ==
    BootEnded =>
        LET hs == boot_args.ErrorHandlers
        IN  /\ \A i \in DOMAIN hs :
                    HandlerE(hs[i]).classes = <<Error>> =>
                        /\ TimesAdded("DefaultErrorHandler") = 0
                        /\ TimesAdded(hs[i]) = 1
            /\ (\A i \in DOMAIN hs :
                    Error \notin Range(HandlerE(hs[i]).classes)) =>
                        TimesAdded("DefaultErrorHandler") = 1

\* a list the caller passed to a Module(...) call was changed in this step
PassedListChanged == \E l \in DOMAIN held \ returned : heap'[l] # heap[l]

\* the list module m stores in field f was changed in this step
StoredListChanged(m, f) == heap'[mods[m][f]] # heap[mods[m][f]]

\* C22: the lists a constructed module stores are independent of the
\* caller's arguments and of each other: a change of a list that was passed
\* to the constructor changes no stored list, and a change of a module's
\* provider list never shows in its exports list, nor the other way round.
C22_StoredListsIndependent ==
    [][/\ PassedListChanged =>
            \A m \in DOMAIN mods : \A f \in ModuleFields :
                ~StoredListChanged(m, f)
       /\ \A m \in DOMAIN mods :
            ~(StoredListChanged(m, "_Providers")
                /\ StoredListChanged(m, "_exports"))]_vars

====
